---- MODULE Spec2Model ----
(***************************************************************************)
(* Model of mpd-wrapped's listen detection (src/mpd/listen_iterator.rs).   *)
(*                                                                         *)
(* Durations (std::time::Duration) are natural numbers of ticks of 100 ms, *)
(* so that 4.9 s, 5 s and sub-second durations are distinct values.  On    *)
(* this grid, and for the durations used below, the f64 quotient           *)
(* as_secs_f64()/as_secs_f64() compared with the literal 0.6 gives the     *)
(* same answer as the exact rational comparison used in                    *)
(* percentage_threshold_met.                                               *)
(*                                                                         *)
(* An Option<T> is a sequence of length at most one: <<>> is None and      *)
(* <<x>> is Some(x).                                                       *)
(***************************************************************************)
EXTENDS Integers, Sequences, FiniteSets

\* ---------------------------------------------------------------- bounds
\* Largest reading of the wall clock (chrono::Utc::now()).
MaxNow == 1
\* Largest number of samples the tracker consumes in one behaviour.
MaxSteps == 3
\* Largest duration argument (in ticks) given to the pure predicates.
MaxTicks == 205

\* ------------------------------------------------------------ data model
\* Duration::from_secs
from_secs(s) == s * 10

\* Duration::as_secs: the whole-seconds part
as_secs(d) == d \div 10

\* mpd::Song, reduced to the field the tracker compares
Files == {"a", "b"}
Song(f) == [file |-> f]

\* Elapsed positions and total durations reported by the player (ticks)
ElapsedVals == {0, 10, 49, 50, 80, 100, 250, 1300}
DurationVals == {0, 5, 100, 400, 1000, 3000}

\* struct SongStatus
SongStatus ==
    [song : {Song(f) : f \in Files}, duration : DurationVals, elapsed : ElapsedVals]

\* struct CurrentListen
CurrentListen(song, start, max_elapsed) ==
    [song |-> song, start |-> start, max_elapsed |-> max_elapsed]

\* struct SongListenRecord
SongListenRecord(song, start) == [song |-> song, start |-> start]

VARIABLES
    current_listen,  \* ListenIterator.current_listen : Option<CurrentListen>
    pc,              \* "ready": the caller is outside next(); "loop": inside
    status,          \* local `status` of next(): the last sample pulled
    listen,          \* local `listen` of next(): what current_listen.take() gave
    ret,             \* value returned by the last completed next()
    emitted,         \* sequence of all records returned so far
    now,             \* the wall clock
    steps,           \* number of samples consumed so far
    span_id,         \* step at which the active span was opened (0: none)
    emitted_span,    \* for each emitted record, the span_id of its span
    branch,          \* match arm taken by the last iteration
    call             \* one application of a pure predicate: arguments, result

tracker_vars == <<current_listen, pc, status, listen, ret, emitted, now, steps,
                  span_id, emitted_span, branch>>

\* ---- the two status sources: StatusIterator (mpd/status_iterator.rs) and
\* ---- MpdStatusIterator (main.rs)
VARIABLES
    si_pc,           \* StatusIterator: "ready" outside next(), "loop" inside
    si_ret,          \* StatusIterator: value returned by the last next()
    si_resp,         \* StatusIterator: the player's answers in the last iteration
    si_last,         \* StatusIterator: outcome of the last iteration
    si_suppressed,   \* StatusIterator: iterations suppressed in this next()
    mi_ret,          \* MpdStatusIterator: value returned by the last next()
    mi_resp,         \* MpdStatusIterator: the player's answers in the last next()
    mi_called        \* MpdStatusIterator: next() has been called

src_vars == <<si_pc, si_ret, si_resp, si_last, si_suppressed,
              mi_ret, mi_resp, mi_called>>

\* ---- MpdClient (mpd/client.rs)
VARIABLES
    client,          \* MpdClient.client : Option<mpd::Client>, a connection id
    cl_pc,           \* "idle", "resolve", "connecting", "command", "panicked"
    cl_op,           \* the operation in progress or last completed
    cl_ret,          \* result of the last completed operation
    cl_conns,        \* number of connections established so far
    cl_attempts,     \* failed attempts of the connect() in progress
    cl_slept,        \* seconds slept by the connect() in progress
    cl_had,          \* a connection was stored when the operation started
    cl_start_conns   \* cl_conns when the operation started

client_vars == <<client, cl_pc, cl_op, cl_ret, cl_conns, cl_attempts, cl_slept,
                 cl_had, cl_start_conns>>

\* ---- MusicDb (persistence/sqlite.rs)
VARIABLES
    plays,           \* table plays: rows [id, artist], in insertion order
    plays_other_tags,\* table plays_other_tags: rows [play_id]
    db_last,         \* outcome of the last log_play: "none", "ok", "err"
    db_id,           \* play id returned by the last successful log_play
    db_logged,       \* artists of the records of the successful log_play calls
    db_failed,       \* some log_play call has returned an error
    top_state,       \* "none", or "ok"/"err": outcome of a top_artists since
                     \* the last log_play
    top_limit,       \* limit of that top_artists call
    top              \* rows [artist, count] it returned

db_vars == <<plays, plays_other_tags, db_last, db_id, db_logged, db_failed,
             top_state, top_limit, top>>

\* ---- main (main.rs)
VARIABLES
    main_pc,         \* "start", "connect", "loop", "done", "failed", "panicked"
    main_db_created, \* MusicDb::new was called (no database file existed)
    main_seen,       \* records the for loop has received from the tracker
    main_info        \* records written by info!("Song listened: ...")

main_vars == <<main_pc, main_db_created, main_seen, main_info>>

\* ---- two runs of the ListenIterator side by side, fed the same samples up
\* ---- to the durations they report
VARIABLES
    pa_listen,       \* run A: current_listen
    pb_listen,       \* run B: current_listen
    pa_emitted,      \* run A: records returned so far
    pb_emitted,      \* run B: records returned so far
    pa_out,          \* run A: what the last sample produced (Option)
    pb_out,          \* run B: what the last sample produced (Option)
    pair_now,        \* the last clock reading, common to both runs
    pair_steps,      \* samples consumed by each run
    pair_same,       \* the last sample had the same duration in both runs
    pair_agree,      \* every sample that ended a span had the same duration
    pair_differed    \* some sample had different durations in the two runs

pair_vars == <<pa_listen, pb_listen, pa_emitted, pb_emitted, pa_out, pb_out,
               pair_now, pair_steps, pair_same, pair_agree, pair_differed>>

\* ---- ListenIterator (mpd/listen_iterator.rs) and SongListenTracker
\* ---- (main.rs) side by side, fed the same samples at the same clock readings
VARIABLES
    eq_li_listen,    \* ListenIterator.current_listen
    eq_st_listen,    \* SongListenTracker.current_listen
    eq_li_pc,        \* ListenIterator: "ready" outside next(), "loop" inside
    eq_st_pc,        \* SongListenTracker: "ready" outside next(), "loop" inside
    eq_li_ret,       \* ListenIterator: value returned by the last next()
    eq_st_ret,       \* SongListenTracker: value returned by the last next()
    eq_last,         \* what the source gave last: "new", "sample", "exhausted"
    eq_now,          \* the last clock reading, common to both
    eq_steps         \* samples consumed by each

eq_vars == <<eq_li_listen, eq_st_listen, eq_li_pc, eq_st_pc, eq_li_ret,
             eq_st_ret, eq_last, eq_now, eq_steps>>

\* the state of everything that is not the ListenIterator
ext_vars == <<call, src_vars, client_vars, db_vars, main_vars, pair_vars,
              eq_vars>>

\* what the actions of one component leave alone
src_frame == <<tracker_vars, call, client_vars, db_vars, main_vars, pair_vars,
               eq_vars>>
fn_frame == <<tracker_vars, src_vars, client_vars, db_vars, main_vars, pair_vars,
              eq_vars>>
client_frame == <<tracker_vars, call, src_vars, db_vars, main_vars, pair_vars,
                  eq_vars>>
db_frame == <<tracker_vars, call, src_vars, client_vars, main_vars, pair_vars,
              eq_vars>>
main_frame == <<tracker_vars, call, src_vars, client_vars, db_vars, pair_vars,
                eq_vars>>
pair_frame == <<tracker_vars, call, src_vars, client_vars, db_vars, main_vars,
                eq_vars>>
eq_frame == <<tracker_vars, call, src_vars, client_vars, db_vars, main_vars,
              pair_vars>>

vars == <<tracker_vars, ext_vars>>

\* ------------------------------------------------------- pure predicates
threshold_time == from_secs(20)

\* 0.6 as the fraction threshold_percentage_num / threshold_percentage_den
threshold_percentage_num == 6
threshold_percentage_den == 10

restart_threshold == from_secs(5)

\* variant: the 20 s boundary excluded
time_threshold_met_strict(max_elapsed) == max_elapsed > threshold_time

time_threshold_met(max_elapsed) == max_elapsed >= threshold_time

\* variant: no guard on the whole-seconds part of the duration
percentage_threshold_met_noguard(max_elapsed, total_duration) ==
    max_elapsed * threshold_percentage_den
      >= threshold_percentage_num * total_duration

percentage_threshold_met(max_elapsed, total_duration) ==
    /\ as_secs(total_duration) > 0
    /\ max_elapsed * threshold_percentage_den
         >= threshold_percentage_num * total_duration

\* variant: the percentage condition dropped
should_emit_time_only(max_elapsed, total_duration) ==
    time_threshold_met(max_elapsed)

should_emit(max_elapsed, total_duration) ==
    \/ time_threshold_met(max_elapsed)
    \/ percentage_threshold_met(max_elapsed, total_duration)

\* variant: the elapsed boundary included
is_restart_inclusive(elapsed, max_elapsed) ==
    elapsed <= restart_threshold /\ max_elapsed >= restart_threshold

is_restart(elapsed, max_elapsed) ==
    elapsed < restart_threshold /\ max_elapsed >= restart_threshold

\* ------------------------------------------------------------------ Init
NoCall == [fn |-> "none", x |-> 0, y |-> 0, result |-> FALSE]

TrackerInit ==
    /\ current_listen = <<>>
    /\ pc = "ready"
    /\ status = <<>>
    /\ listen = <<>>
    /\ ret = <<>>
    /\ emitted = <<>>
    /\ now = 0
    /\ steps = 0
    /\ span_id = 0
    /\ emitted_span = <<>>
    /\ branch = "new"

SrcInit ==
    /\ si_pc = "ready"
    /\ si_ret = <<>>
    /\ si_resp = <<>>
    /\ si_last = "new"
    /\ si_suppressed = 0
    /\ mi_ret = <<>>
    /\ mi_resp = <<>>
    /\ mi_called = FALSE

\* MpdClient::new
ClientInit ==
    /\ client = <<>>
    /\ cl_pc = "idle"
    /\ cl_op = "none"
    /\ cl_ret = "none"
    /\ cl_conns = 0
    /\ cl_attempts = 0
    /\ cl_slept = 0
    /\ cl_had = FALSE
    /\ cl_start_conns = 0

\* MusicDb::new on a fresh database
DbInit ==
    /\ plays = <<>>
    /\ plays_other_tags = <<>>
    /\ db_last = "none"
    /\ db_id = 0
    /\ db_logged = <<>>
    /\ db_failed = FALSE
    /\ top_state = "none"
    /\ top_limit = 0
    /\ top = <<>>

\* entry of main()
MainInit ==
    /\ main_pc = "start"
    /\ main_db_created = FALSE
    /\ main_seen = <<>>
    /\ main_info = <<>>

\* ListenIterator::new, twice
PairInit ==
    /\ pa_listen = <<>>
    /\ pb_listen = <<>>
    /\ pa_emitted = <<>>
    /\ pb_emitted = <<>>
    /\ pa_out = <<>>
    /\ pb_out = <<>>
    /\ pair_now = 0
    /\ pair_steps = 0
    /\ pair_same = TRUE
    /\ pair_agree = TRUE
    /\ pair_differed = FALSE

\* ListenIterator::new and SongListenTracker::new
EqInit ==
    /\ eq_li_listen = <<>>
    /\ eq_st_listen = <<>>
    /\ eq_li_pc = "ready"
    /\ eq_st_pc = "ready"
    /\ eq_li_ret = <<>>
    /\ eq_st_ret = <<>>
    /\ eq_last = "new"
    /\ eq_now = 0
    /\ eq_steps = 0

\* the initial state of everything but the ListenIterator and `call`
RestInit ==
    SrcInit /\ ClientInit /\ DbInit /\ MainInit /\ PairInit /\ EqInit

Init == TrackerInit /\ call = NoCall /\ RestInit

\* --------------------------------------------------------------- actions
\* The wall clock advances between two readings.
Tick ==
    /\ now < MaxNow
    /\ now' = now + 1
    /\ UNCHANGED <<current_listen, pc, status, listen, ret, emitted, steps,
                   span_id, emitted_span, branch, ext_vars>>

\* The consumer calls next().
Pull ==
    /\ pc = "ready"
    /\ pc' = "loop"
    /\ UNCHANGED <<current_listen, status, listen, ret, emitted, now, steps,
                   span_id, emitted_span, branch, ext_vars>>

\* self.inner.next()? yields None: next() returns None.
Exhausted ==
    /\ pc = "loop"
    /\ pc' = "ready"
    /\ ret' = <<>>
    /\ status' = <<>>
    /\ listen' = <<>>
    /\ branch' = "exhausted"
    /\ UNCHANGED <<current_listen, emitted, now, steps, span_id, emitted_span,
                   ext_vars>>

\* return Some(SongListenRecord { song: listen.song, start: listen.start })
Return(l) ==
    /\ pc' = "ready"
    /\ ret' = <<SongListenRecord(l.song, l.start)>>
    /\ emitted' = Append(emitted, SongListenRecord(l.song, l.start))
    /\ emitted_span' = Append(emitted_span, span_id)

\* fall through to the next iteration of the loop
Continue ==
    /\ pc' = "loop"
    /\ UNCHANGED <<ret, emitted, emitted_span>>

\* variant: the first sample ends the pull with None
FirstSong_return ==
    /\ pc = "loop"
    /\ steps < MaxSteps
    /\ current_listen = <<>>
    /\ \E s \in SongStatus :
        /\ status' = <<s>>
        /\ listen' = <<>>
        /\ current_listen' = <<CurrentListen(s.song, now, s.elapsed)>>
    /\ steps' = steps + 1
    /\ span_id' = steps + 1
    /\ branch' = "first"
    /\ pc' = "ready"
    /\ ret' = <<>>
    /\ UNCHANGED <<emitted, emitted_span>>
    /\ UNCHANGED <<now, ext_vars>>

\* variant: the first sample is emitted at once when it already qualifies
FirstSong_emit ==
    /\ pc = "loop"
    /\ steps < MaxSteps
    /\ current_listen = <<>>
    /\ \E s \in SongStatus :
        /\ status' = <<s>>
        /\ listen' = <<>>
        /\ current_listen' = <<CurrentListen(s.song, now, s.elapsed)>>
        /\ IF should_emit(s.elapsed, s.duration)
             THEN Return(CurrentListen(s.song, now, s.elapsed))
             ELSE Continue
    /\ steps' = steps + 1
    /\ span_id' = steps + 1
    /\ branch' = "first"
    /\ UNCHANGED <<now, ext_vars>>

\* match arm None: first song
FirstSong ==
    /\ pc = "loop"
    /\ steps < MaxSteps
    /\ current_listen = <<>>
    /\ \E s \in SongStatus :
        /\ status' = <<s>>
        /\ listen' = <<>>
        /\ current_listen' = <<CurrentListen(s.song, now, s.elapsed)>>
    /\ steps' = steps + 1
    /\ span_id' = steps + 1
    /\ branch' = "first"
    /\ Continue
    /\ UNCHANGED <<now, ext_vars>>

\* variant: the record is built from the span that was just opened
DifferentSong_incoming ==
    /\ pc = "loop"
    /\ steps < MaxSteps
    /\ current_listen # <<>>
    /\ \E s \in SongStatus :
        /\ current_listen[1].song.file # s.song.file
        /\ status' = <<s>>
        /\ listen' = current_listen
        /\ current_listen' = <<CurrentListen(s.song, now, s.elapsed)>>
        /\ IF should_emit(current_listen[1].max_elapsed, s.duration)
             THEN Return(CurrentListen(s.song, now, s.elapsed))
             ELSE Continue
    /\ steps' = steps + 1
    /\ span_id' = steps + 1
    /\ branch' = "different"
    /\ UNCHANGED <<now, ext_vars>>

\* match arm Some(listen) if listen.song.file != status.song.file
DifferentSong ==
    /\ pc = "loop"
    /\ steps < MaxSteps
    /\ current_listen # <<>>
    /\ \E s \in SongStatus :
        /\ current_listen[1].song.file # s.song.file
        /\ status' = <<s>>
        /\ listen' = current_listen
        /\ current_listen' = <<CurrentListen(s.song, now, s.elapsed)>>
        /\ IF should_emit(current_listen[1].max_elapsed, s.duration)
             THEN Return(current_listen[1])
             ELSE Continue
    /\ steps' = steps + 1
    /\ span_id' = steps + 1
    /\ branch' = "different"
    /\ UNCHANGED <<now, ext_vars>>

\* variant: the span is replaced only when a record is emitted
SameSongRestart_only_if_emit ==
    /\ pc = "loop"
    /\ steps < MaxSteps
    /\ current_listen # <<>>
    /\ \E s \in SongStatus :
        /\ current_listen[1].song.file = s.song.file
        /\ is_restart(s.elapsed, current_listen[1].max_elapsed)
        /\ status' = <<s>>
        /\ listen' = current_listen
        /\ IF should_emit(current_listen[1].max_elapsed, s.duration)
             THEN /\ current_listen' =
                       <<CurrentListen(current_listen[1].song, now, s.elapsed)>>
                  /\ span_id' = steps + 1
                  /\ Return(current_listen[1])
             ELSE /\ current_listen' = current_listen
                  /\ span_id' = span_id
                  /\ Continue
    /\ steps' = steps + 1
    /\ branch' = "restart"
    /\ UNCHANGED <<now, ext_vars>>

\* variant: a record is emitted but the span is kept
SameSongRestart_keep ==
    /\ pc = "loop"
    /\ steps < MaxSteps
    /\ current_listen # <<>>
    /\ \E s \in SongStatus :
        /\ current_listen[1].song.file = s.song.file
        /\ is_restart(s.elapsed, current_listen[1].max_elapsed)
        /\ status' = <<s>>
        /\ listen' = current_listen
        /\ current_listen' = current_listen
        /\ IF should_emit(current_listen[1].max_elapsed, s.duration)
             THEN Return(current_listen[1])
             ELSE Continue
    /\ steps' = steps + 1
    /\ span_id' = span_id
    /\ branch' = "restart"
    /\ UNCHANGED <<now, ext_vars>>

\* match arm Some(mut listen), is_restart(status.elapsed, listen.max_elapsed)
SameSongRestart ==
    /\ pc = "loop"
    /\ steps < MaxSteps
    /\ current_listen # <<>>
    /\ \E s \in SongStatus :
        /\ current_listen[1].song.file = s.song.file
        /\ is_restart(s.elapsed, current_listen[1].max_elapsed)
        /\ status' = <<s>>
        /\ listen' = current_listen
        /\ current_listen' =
             <<CurrentListen(current_listen[1].song, now, s.elapsed)>>
        /\ IF should_emit(current_listen[1].max_elapsed, s.duration)
             THEN Return(current_listen[1])
             ELSE Continue
    /\ steps' = steps + 1
    /\ span_id' = steps + 1
    /\ branch' = "restart"
    /\ UNCHANGED <<now, ext_vars>>

\* variant: max_elapsed follows the sample even when it moves backward
SameSongProgress_assign ==
    /\ pc = "loop"
    /\ steps < MaxSteps
    /\ current_listen # <<>>
    /\ \E s \in SongStatus :
        /\ current_listen[1].song.file = s.song.file
        /\ ~is_restart(s.elapsed, current_listen[1].max_elapsed)
        /\ status' = <<s>>
        /\ listen' = current_listen
        /\ current_listen' =
             <<[current_listen[1] EXCEPT !.max_elapsed = s.elapsed]>>
    /\ steps' = steps + 1
    /\ branch' = "progress"
    /\ Continue
    /\ UNCHANGED <<now, span_id, ext_vars>>

\* variant: the span taken out of current_listen is not put back
SameSongProgress_taken ==
    /\ pc = "loop"
    /\ steps < MaxSteps
    /\ current_listen # <<>>
    /\ \E s \in SongStatus :
        /\ current_listen[1].song.file = s.song.file
        /\ ~is_restart(s.elapsed, current_listen[1].max_elapsed)
        /\ status' = <<s>>
        /\ listen' = current_listen
        /\ current_listen' = <<>>
    /\ steps' = steps + 1
    /\ branch' = "progress"
    /\ Continue
    /\ UNCHANGED <<now, span_id, ext_vars>>

\* match arm Some(mut listen), not a restart: update max_elapsed
SameSongProgress ==
    /\ pc = "loop"
    /\ steps < MaxSteps
    /\ current_listen # <<>>
    /\ \E s \in SongStatus :
        /\ current_listen[1].song.file = s.song.file
        /\ ~is_restart(s.elapsed, current_listen[1].max_elapsed)
        /\ status' = <<s>>
        /\ listen' = current_listen
        /\ current_listen' =
             IF s.elapsed > current_listen[1].max_elapsed
               THEN <<[current_listen[1] EXCEPT !.max_elapsed = s.elapsed]>>
               ELSE current_listen
    /\ steps' = steps + 1
    /\ branch' = "progress"
    /\ Continue
    /\ UNCHANGED <<now, span_id, ext_vars>>

Next ==
    \/ Tick
    \/ Pull
    \/ Exhausted
    \/ FirstSong
    \/ DifferentSong
    \/ SameSongRestart
    \/ SameSongProgress

Spec == Init /\ [][Next]_vars

\* -------------------------------------- the pure predicates on their own
InitFn ==
    /\ TrackerInit
    /\ RestInit
    /\ call \in [fn : {"none"}, x : 0..MaxTicks, y : 0..MaxTicks,
                 result : {FALSE}]

\* should_emit(max_elapsed = call.x, total_duration = call.y)
ApplyShouldEmit ==
    /\ call.fn = "none"
    /\ call' = [call EXCEPT !.fn = "should_emit",
                            !.result = should_emit(call.x, call.y)]
    /\ UNCHANGED fn_frame

\* is_restart(elapsed = call.x, max_elapsed = call.y)
ApplyIsRestart ==
    /\ call.fn = "none"
    /\ call' = [call EXCEPT !.fn = "is_restart",
                            !.result = is_restart(call.x, call.y)]
    /\ UNCHANGED fn_frame

NextFn == ApplyShouldEmit \/ ApplyIsRestart

SpecFn == InitFn /\ [][NextFn]_vars

\* ------------------------------------------------------ status sources
\* Largest number of state changes suppressed within one next().
MaxSuppress == 2

\* What the player answers to idle(), status() and currentsong() in one
\* iteration: each call may fail; elapsed, duration and the song may be absent.
Option(S) == {<<>>} \cup {<<x>> : x \in S}

PlayerResponse ==
    [idle_ok : BOOLEAN, status_ok : BOOLEAN,
     elapsed : Option({100}), duration : Option({1000}),
     song_ok : BOOLEAN, song : Option(Files)]

\* variant: a missing duration is replaced by zero
get_status_default(r) ==
    IF ~r.status_ok THEN <<>>
    ELSE IF r.elapsed = <<>> THEN <<>>
    ELSE IF ~r.song_ok \/ r.song = <<>> THEN <<>>
    ELSE <<[song |-> Song(r.song[1]),
            duration |-> IF r.duration = <<>> THEN 0 ELSE r.duration[1],
            elapsed |-> r.elapsed[1]]>>

\* StatusIterator::get_status
get_status(r) ==
    IF ~r.status_ok THEN <<>>
    ELSE IF r.elapsed = <<>> THEN <<>>
    ELSE IF r.duration = <<>> THEN <<>>
    ELSE IF ~r.song_ok \/ r.song = <<>> THEN <<>>
    ELSE <<[song |-> Song(r.song[1]), duration |-> r.duration[1],
            elapsed |-> r.elapsed[1]]>>

\* MpdStatusIterator::next, as a function of the player's answers
MpdStatusIterator_next(r) ==
    IF ~r.idle_ok THEN <<>>
    ELSE IF ~r.status_ok THEN <<>>
    ELSE IF r.elapsed = <<>> THEN <<>>
    ELSE IF r.duration = <<>> THEN <<>>
    ELSE IF ~r.song_ok \/ r.song = <<>> THEN <<>>
    ELSE <<[song |-> Song(r.song[1]), duration |-> r.duration[1],
            elapsed |-> r.elapsed[1]]>>

\* The consumer calls StatusIterator::next().
SI_Call ==
    /\ si_pc = "ready"
    /\ si_pc' = "loop"
    /\ si_suppressed' = 0
    /\ UNCHANGED <<si_ret, si_resp, si_last, mi_ret, mi_resp, mi_called>>
    /\ UNCHANGED src_frame

\* self.client.idle(..).ok()? fails: next() returns None.
SI_IdleFails ==
    /\ si_pc = "loop"
    /\ \E r \in PlayerResponse :
        /\ ~r.idle_ok
        /\ si_resp' = <<r>>
    /\ si_ret' = <<>>
    /\ si_last' = "exhausted"
    /\ si_pc' = "ready"
    /\ UNCHANGED <<si_suppressed, mi_ret, mi_resp, mi_called>>
    /\ UNCHANGED src_frame

\* idle() succeeded and get_status() gave a sample: next() returns it.
SI_Yields ==
    /\ si_pc = "loop"
    /\ \E r \in PlayerResponse :
        /\ r.idle_ok
        /\ get_status(r) # <<>>
        /\ si_resp' = <<r>>
        /\ si_ret' = get_status(r)
    /\ si_last' = "yield"
    /\ si_pc' = "ready"
    /\ UNCHANGED <<si_suppressed, mi_ret, mi_resp, mi_called>>
    /\ UNCHANGED src_frame

\* idle() succeeded and get_status() gave None: wait for the next change.
SI_Suppresses ==
    /\ si_pc = "loop"
    /\ si_suppressed < MaxSuppress
    /\ \E r \in PlayerResponse :
        /\ r.idle_ok
        /\ get_status(r) = <<>>
        /\ si_resp' = <<r>>
    /\ si_last' = "suppressed"
    /\ si_suppressed' = si_suppressed + 1
    /\ UNCHANGED <<si_pc, si_ret, mi_ret, mi_resp, mi_called>>
    /\ UNCHANGED src_frame

\* One call of MpdStatusIterator::next().
MI_Next ==
    /\ \E r \in PlayerResponse :
        /\ mi_resp' = <<r>>
        /\ mi_ret' = MpdStatusIterator_next(r)
    /\ mi_called' = TRUE
    /\ UNCHANGED <<si_pc, si_ret, si_resp, si_last, si_suppressed>>
    /\ UNCHANGED src_frame

NextSrc ==
    \/ SI_Call
    \/ SI_IdleFails
    \/ SI_Yields
    \/ SI_Suppresses
    \/ MI_Next

SpecSrc == Init /\ [][NextSrc]_vars

\* ------------------------------------------------------------- MpdClient
\* Largest number of failed attempts within one connect().
MaxAttempts == 2
\* Largest number of connections established in one behaviour.
MaxConns == 3

\* std::thread::sleep(Duration::from_secs(5))
retry_secs == 5

\* current_song, status and wait_for_changes have the same structure
Ops == {"current_song", "status", "wait_for_changes"}

\* connect() is called directly.
CL_CallConnect ==
    /\ cl_pc = "idle"
    /\ cl_op' = "connect"
    /\ cl_pc' = "resolve"
    /\ cl_attempts' = 0
    /\ cl_slept' = 0
    /\ cl_had' = (client # <<>>)
    /\ cl_start_conns' = cl_conns
    /\ UNCHANGED <<client, cl_ret, cl_conns>>
    /\ UNCHANGED client_frame

\* An operation is called; ensure_connected() calls connect() when no
\* connection is stored.
CL_CallOp ==
    /\ cl_pc = "idle"
    /\ \E op \in Ops : cl_op' = op
    /\ cl_pc' = IF client = <<>> THEN "resolve" ELSE "command"
    /\ cl_attempts' = 0
    /\ cl_slept' = 0
    /\ cl_had' = (client # <<>>)
    /\ cl_start_conns' = cl_conns
    /\ UNCHANGED <<client, cl_ret, cl_conns>>
    /\ UNCHANGED client_frame

\* variant: ensure_connected() drops the error of connect() and returns Ok
CL_ResolveFails_ignored ==
    /\ cl_pc = "resolve"
    /\ IF cl_op = "connect"
         THEN cl_pc' = "idle" /\ cl_ret' = "err_resolve"
         ELSE cl_pc' = "command" /\ cl_ret' = cl_ret
    /\ UNCHANGED <<client, cl_op, cl_conns, cl_attempts, cl_slept, cl_had,
                   cl_start_conns>>
    /\ UNCHANGED client_frame

\* to_socket_addrs() fails or resolves nothing: connect() returns the error,
\* and so does the operation that called ensure_connected().
CL_ResolveFails ==
    /\ cl_pc = "resolve"
    /\ cl_pc' = "idle"
    /\ cl_ret' = "err_resolve"
    /\ UNCHANGED <<client, cl_op, cl_conns, cl_attempts, cl_slept, cl_had,
                   cl_start_conns>>
    /\ UNCHANGED client_frame

\* The address is resolved: enter the retry loop.
CL_ResolveOk ==
    /\ cl_pc = "resolve"
    /\ cl_pc' = "connecting"
    /\ UNCHANGED <<client, cl_op, cl_ret, cl_conns, cl_attempts, cl_slept,
                   cl_had, cl_start_conns>>
    /\ UNCHANGED client_frame

\* variant: a failed attempt makes connect() return the error
CL_AttemptFails_giveup ==
    /\ cl_pc = "connecting"
    /\ cl_attempts < MaxAttempts
    /\ cl_attempts' = cl_attempts + 1
    /\ cl_pc' = "idle"
    /\ cl_ret' = "err_connect"
    /\ UNCHANGED <<client, cl_op, cl_conns, cl_slept, cl_had, cl_start_conns>>
    /\ UNCHANGED client_frame

\* mpd::Client::connect(addr) fails: sleep 5 s and try again.
CL_AttemptFails ==
    /\ cl_pc = "connecting"
    /\ cl_attempts < MaxAttempts
    /\ cl_attempts' = cl_attempts + 1
    /\ cl_slept' = cl_slept + retry_secs
    /\ UNCHANGED <<client, cl_pc, cl_op, cl_ret, cl_conns, cl_had,
                   cl_start_conns>>
    /\ UNCHANGED client_frame

\* mpd::Client::connect(addr) succeeds: store the connection; connect()
\* returns Ok, and an operation goes on to its command.
CL_AttemptOk ==
    /\ cl_pc = "connecting"
    /\ cl_conns < MaxConns
    /\ cl_conns' = cl_conns + 1
    /\ client' = <<cl_conns + 1>>
    /\ IF cl_op = "connect"
         THEN cl_pc' = "idle" /\ cl_ret' = "ok"
         ELSE cl_pc' = "command" /\ cl_ret' = cl_ret
    /\ UNCHANGED <<cl_op, cl_attempts, cl_slept, cl_had, cl_start_conns>>
    /\ UNCHANGED client_frame

\* self.client.as_mut().unwrap() and the command succeed.
CL_CommandOk ==
    /\ cl_pc = "command"
    /\ IF client = <<>>
         THEN cl_pc' = "panicked" /\ cl_ret' = cl_ret
         ELSE cl_pc' = "idle" /\ cl_ret' = "ok"
    /\ UNCHANGED <<client, cl_op, cl_conns, cl_attempts, cl_slept, cl_had,
                   cl_start_conns>>
    /\ UNCHANGED client_frame

\* variant: the failed connection stays stored
CL_CommandFails_keep ==
    /\ cl_pc = "command"
    /\ IF client = <<>>
         THEN cl_pc' = "panicked" /\ cl_ret' = cl_ret
         ELSE cl_pc' = "idle" /\ cl_ret' = "err_cmd"
    /\ UNCHANGED <<client, cl_op, cl_conns, cl_attempts, cl_slept, cl_had,
                   cl_start_conns>>
    /\ UNCHANGED client_frame

\* The command fails: clear the stored connection and return the error.
CL_CommandFails ==
    /\ cl_pc = "command"
    /\ IF client = <<>>
         THEN cl_pc' = "panicked" /\ cl_ret' = cl_ret /\ client' = client
         ELSE cl_pc' = "idle" /\ cl_ret' = "err_cmd" /\ client' = <<>>
    /\ UNCHANGED <<cl_op, cl_conns, cl_attempts, cl_slept, cl_had,
                   cl_start_conns>>
    /\ UNCHANGED client_frame

NextClient ==
    \/ CL_CallConnect
    \/ CL_CallOp
    \/ CL_ResolveFails
    \/ CL_ResolveOk
    \/ CL_AttemptFails
    \/ CL_AttemptOk
    \/ CL_CommandOk
    \/ CL_CommandFails

SpecClient == Init /\ [][NextClient]_vars

\* --------------------------------------------------------------- MusicDb
\* Largest number of rows in table plays.
MaxPlays == 3
\* Largest limit given to top_artists.
MaxLimit == 2

Artists == {"x", "y"}

\* struct PlayRecord, reduced to the artist and the number of other tags
PlayRecord == [artist : Option(Artists), ntags : 0..1]

Min(a, b) == IF a <= b THEN a ELSE b

\* COUNT(*) of the group of artist a
PlayCount(a) == Cardinality({i \in 1..Len(plays) : plays[i].artist = <<a>>})

\* WHERE artist IS NOT NULL GROUP BY artist
ArtistGroups == {a \in Artists : PlayCount(a) > 0}

\* variant: ORDER BY play_count ASC
SortedAsc(q) ==
    \A i \in 1..Len(q) : \A j \in 1..Len(q) : i < j => q[i].count <= q[j].count

\* ORDER BY play_count DESC
SortedDesc(q) ==
    \A i \in 1..Len(q) : \A j \in 1..Len(q) : i < j => q[i].count >= q[j].count

\* The row sequences the SELECT may produce before LIMIT: one row per group,
\* in any order that is descending by count (ties in either order).
QueryResults ==
    LET n == Cardinality(ArtistGroups)
        orders == {f \in [1..n -> ArtistGroups] :
                     \A i \in 1..n : \A j \in 1..n : i # j => f[i] # f[j]}
        rows(f) == [i \in 1..n |-> [artist |-> f[i], count |-> PlayCount(f[i])]]
    IN  {q \in {rows(f) : f \in orders} : SortedDesc(q)}

\* MusicDb::log_play: the INSERT into plays, then one INSERT per other tag;
\* either may fail, and the statements are not in a transaction.
DB_LogPlay ==
    /\ Len(plays) < MaxPlays
    /\ \E rec \in PlayRecord : \E outcome \in {"ok", "insert_err", "tag_err"} :
        LET play_id == Len(plays) + 1 IN
        CASE outcome = "insert_err" ->
               /\ db_last' = "err"
               /\ db_failed' = TRUE
               /\ UNCHANGED <<plays, plays_other_tags, db_id, db_logged>>
          [] outcome = "tag_err" ->
               /\ rec.ntags > 0
               /\ plays' = Append(plays, [id |-> play_id, artist |-> rec.artist])
               /\ db_last' = "err"
               /\ db_failed' = TRUE
               /\ UNCHANGED <<plays_other_tags, db_id, db_logged>>
          [] outcome = "ok" ->
               /\ plays' = Append(plays, [id |-> play_id, artist |-> rec.artist])
               /\ plays_other_tags' =
                    IF rec.ntags > 0
                      THEN Append(plays_other_tags, [play_id |-> play_id])
                      ELSE plays_other_tags
               /\ db_last' = "ok"
               /\ db_id' = play_id
               /\ db_logged' = Append(db_logged, rec.artist)
               /\ UNCHANGED db_failed
    /\ top_state' = "none"
    /\ top_limit' = 0
    /\ top' = <<>>
    /\ UNCHANGED db_frame

\* MusicDb::top_artists(limit) succeeds.
DB_TopArtists ==
    /\ \E limit \in 0..MaxLimit : \E q \in QueryResults :
        /\ top_limit' = limit
        /\ top' = SubSeq(q, 1, Min(limit, Len(q)))
    /\ top_state' = "ok"
    /\ UNCHANGED <<plays, plays_other_tags, db_last, db_id, db_logged, db_failed>>
    /\ UNCHANGED db_frame

\* MusicDb::top_artists(limit) fails in prepare or in the query.
DB_TopArtistsFails ==
    /\ \E limit \in 0..MaxLimit : top_limit' = limit
    /\ top' = <<>>
    /\ top_state' = "err"
    /\ UNCHANGED <<plays, plays_other_tags, db_last, db_id, db_logged, db_failed>>
    /\ UNCHANGED db_frame

NextDb == DB_LogPlay \/ DB_TopArtists \/ DB_TopArtistsFails

SpecDb == Init /\ [][NextDb]_vars

\* ------------------------------------------------------------------ main
\* Largest number of records main's loop receives in one behaviour.
MaxRecords == 3

\* The records the tracker may hand to main's loop.
Records == {SongListenRecord(Song(f), t) : f \in Files, t \in 0..MaxNow}

\* get_db_path()? fails: main returns the error.
M_PathFails ==
    /\ main_pc = "start"
    /\ main_pc' = "failed"
    /\ UNCHANGED <<main_db_created, main_seen, main_info>>
    /\ UNCHANGED main_frame

\* The database file exists (nothing is opened) or not (MusicDb::new).
M_OpenDb ==
    /\ main_pc = "start"
    /\ \E exists \in BOOLEAN : main_db_created' = ~exists
    /\ main_pc' = "connect"
    /\ UNCHANGED <<main_seen, main_info>>
    /\ UNCHANGED main_frame

\* MpdStatusIterator::new("127.0.0.1", 6600).unwrap()
M_Connect ==
    /\ main_pc = "connect"
    /\ \E ok \in BOOLEAN : main_pc' = IF ok THEN "loop" ELSE "panicked"
    /\ UNCHANGED <<main_db_created, main_seen, main_info>>
    /\ UNCHANGED main_frame

\* One iteration of `for record in tracker`: the body is the info! call.
M_Record ==
    /\ main_pc = "loop"
    /\ Len(main_seen) < MaxRecords
    /\ \E r \in Records :
        /\ main_seen' = Append(main_seen, r)
        /\ main_info' = Append(main_info, r)
    /\ UNCHANGED <<main_pc, main_db_created>>
    /\ UNCHANGED main_frame

\* The tracker returns None: the loop ends and main returns Ok(()).
M_End ==
    /\ main_pc = "loop"
    /\ main_pc' = "done"
    /\ UNCHANGED <<main_db_created, main_seen, main_info>>
    /\ UNCHANGED main_frame

NextMain == M_PathFails \/ M_OpenDb \/ M_Connect \/ M_Record \/ M_End

SpecMain == Init /\ [][NextMain]_vars

\* ------------------------------------------- two runs of ListenIterator
\* Largest number of samples each of the two runs consumes.
MaxPairSteps == 3

\* variant: the elapsed position is clamped to the reported duration before
\* it raises max_elapsed
loop_body_clamped(cl, s, t) ==
    IF cl = <<>>
      THEN [span |-> <<CurrentListen(s.song, t, s.elapsed)>>, out |-> <<>>]
    ELSE IF cl[1].song.file # s.song.file
      THEN [span |-> <<CurrentListen(s.song, t, s.elapsed)>>,
            out |-> IF should_emit(cl[1].max_elapsed, s.duration)
                      THEN <<SongListenRecord(cl[1].song, cl[1].start)>>
                      ELSE <<>>]
    ELSE IF is_restart(s.elapsed, cl[1].max_elapsed)
      THEN [span |-> <<CurrentListen(cl[1].song, t, s.elapsed)>>,
            out |-> IF should_emit(cl[1].max_elapsed, s.duration)
                      THEN <<SongListenRecord(cl[1].song, cl[1].start)>>
                      ELSE <<>>]
    ELSE [span |-> IF Min(s.elapsed, s.duration) > cl[1].max_elapsed
                     THEN <<[cl[1] EXCEPT
                               !.max_elapsed = Min(s.elapsed, s.duration)]>>
                     ELSE cl,
          out |-> <<>>]

\* One iteration of the loop of ListenIterator::next as a function: from
\* current_listen cl, the sample s and the clock reading t to the new
\* current_listen (span) and the record returned, if any (out).
loop_body(cl, s, t) ==
    IF cl = <<>>
      THEN [span |-> <<CurrentListen(s.song, t, s.elapsed)>>, out |-> <<>>]
    ELSE IF cl[1].song.file # s.song.file
      THEN [span |-> <<CurrentListen(s.song, t, s.elapsed)>>,
            out |-> IF should_emit(cl[1].max_elapsed, s.duration)
                      THEN <<SongListenRecord(cl[1].song, cl[1].start)>>
                      ELSE <<>>]
    ELSE IF is_restart(s.elapsed, cl[1].max_elapsed)
      THEN [span |-> <<CurrentListen(cl[1].song, t, s.elapsed)>>,
            out |-> IF should_emit(cl[1].max_elapsed, s.duration)
                      THEN <<SongListenRecord(cl[1].song, cl[1].start)>>
                      ELSE <<>>]
    ELSE [span |-> IF s.elapsed > cl[1].max_elapsed
                     THEN <<[cl[1] EXCEPT !.max_elapsed = s.elapsed]>>
                     ELSE cl,
          out |-> <<>>]

\* The sample s ends the span cl: a track change or a restart.
EndsSpan(cl, s) ==
    /\ cl # <<>>
    /\ \/ cl[1].song.file # s.song.file
       \/ is_restart(s.elapsed, cl[1].max_elapsed)

\* Both runs consume one sample: the same track and elapsed position at the
\* same clock reading, with durations that may differ.
P_Sample ==
    /\ pair_steps < MaxPairSteps
    /\ \E s \in SongStatus : \E d \in DurationVals :
       \E t \in pair_now..Min(pair_now + 1, MaxNow) :
        LET sb == [s EXCEPT !.duration = d]
            ra == loop_body(pa_listen, s, t)
            rb == loop_body(pb_listen, sb, t)
            ending == EndsSpan(pa_listen, s) \/ EndsSpan(pb_listen, sb)
        IN  /\ pa_listen' = ra.span
            /\ pb_listen' = rb.span
            /\ pa_out' = ra.out
            /\ pb_out' = rb.out
            /\ pa_emitted' = pa_emitted \o ra.out
            /\ pb_emitted' = pb_emitted \o rb.out
            /\ pair_now' = t
            /\ pair_same' = (d = s.duration)
            /\ pair_agree' = (pair_agree /\ (ending => d = s.duration))
            /\ pair_differed' = (pair_differed \/ d # s.duration)
    /\ pair_steps' = pair_steps + 1
    /\ UNCHANGED pair_frame

NextPair == P_Sample

SpecPair == Init /\ [][NextPair]_vars

\* ------------------- ListenIterator and SongListenTracker side by side
\* Largest number of samples the two implementations consume.
MaxEqSteps == 3

\* SongListenTracker::should_emit (main.rs)
SongListenTracker_should_emit(max_elapsed, total_duration) ==
    LET st_threshold_time == from_secs(20)
        st_time_threshold_met == max_elapsed >= st_threshold_time
        st_percentage_threshold_met ==
            /\ as_secs(total_duration) > 0
            /\ max_elapsed * 10 >= 6 * total_duration
    IN  st_time_threshold_met \/ st_percentage_threshold_met

\* variant: the elapsed boundary included
SongListenTracker_is_restart_inclusive(elapsed, max_elapsed) ==
    LET st_restart_threshold == from_secs(5)
    IN  elapsed <= st_restart_threshold /\ max_elapsed >= st_restart_threshold

\* SongListenTracker::is_restart (main.rs)
SongListenTracker_is_restart(elapsed, max_elapsed) ==
    LET st_restart_threshold == from_secs(5)
    IN  elapsed < st_restart_threshold /\ max_elapsed >= st_restart_threshold

\* One iteration of the loop of SongListenTracker::next (main.rs) as a
\* function: from current_listen cl, the sample s and the clock reading t to
\* the new current_listen (span) and the record returned, if any (out).
SongListenTracker_loop_body(cl, s, t) ==
    IF cl = <<>>
      THEN [span |-> <<CurrentListen(s.song, t, s.elapsed)>>, out |-> <<>>]
    ELSE IF cl[1].song.file # s.song.file
      THEN [span |-> <<CurrentListen(s.song, t, s.elapsed)>>,
            out |-> IF SongListenTracker_should_emit(cl[1].max_elapsed,
                                                     s.duration)
                      THEN <<SongListenRecord(cl[1].song, cl[1].start)>>
                      ELSE <<>>]
    ELSE IF SongListenTracker_is_restart(s.elapsed, cl[1].max_elapsed)
      THEN [span |-> <<CurrentListen(cl[1].song, t, s.elapsed)>>,
            out |-> IF SongListenTracker_should_emit(cl[1].max_elapsed,
                                                     s.duration)
                      THEN <<SongListenRecord(cl[1].song, cl[1].start)>>
                      ELSE <<>>]
    ELSE [span |-> IF s.elapsed > cl[1].max_elapsed
                     THEN <<[cl[1] EXCEPT !.max_elapsed = s.elapsed]>>
                     ELSE cl,
          out |-> <<>>]

\* Both consumers call next().
E_Pull ==
    /\ eq_li_pc = "ready"
    /\ eq_st_pc = "ready"
    /\ eq_li_pc' = "loop"
    /\ eq_st_pc' = "loop"
    /\ UNCHANGED <<eq_li_listen, eq_st_listen, eq_li_ret, eq_st_ret, eq_last,
                   eq_now, eq_steps>>
    /\ UNCHANGED eq_frame

\* Both sources yield the same sample and both implementations read the
\* same clock: one iteration of each loop.  An iteration that produces a
\* record ends the pull with it; otherwise the loop goes on.
E_Sample ==
    /\ eq_li_pc = "loop"
    /\ eq_st_pc = "loop"
    /\ eq_steps < MaxEqSteps
    /\ \E s \in SongStatus : \E t \in eq_now..Min(eq_now + 1, MaxNow) :
        LET li == loop_body(eq_li_listen, s, t)
            st == SongListenTracker_loop_body(eq_st_listen, s, t)
        IN  /\ eq_li_listen' = li.span
            /\ eq_st_listen' = st.span
            /\ eq_li_pc' = IF li.out = <<>> THEN "loop" ELSE "ready"
            /\ eq_st_pc' = IF st.out = <<>> THEN "loop" ELSE "ready"
            /\ eq_li_ret' = IF li.out = <<>> THEN eq_li_ret ELSE li.out
            /\ eq_st_ret' = IF st.out = <<>> THEN eq_st_ret ELSE st.out
            /\ eq_now' = t
    /\ eq_last' = "sample"
    /\ eq_steps' = eq_steps + 1
    /\ UNCHANGED eq_frame

\* Both sources are exhausted: self.inner.next()? makes both pulls return
\* None, before current_listen is touched.
E_Exhausted ==
    /\ eq_li_pc = "loop"
    /\ eq_st_pc = "loop"
    /\ eq_li_pc' = "ready"
    /\ eq_st_pc' = "ready"
    /\ eq_li_ret' = <<>>
    /\ eq_st_ret' = <<>>
    /\ eq_last' = "exhausted"
    /\ UNCHANGED <<eq_li_listen, eq_st_listen, eq_now, eq_steps>>
    /\ UNCHANGED eq_frame

NextEq ==
    \/ E_Pull
    \/ E_Sample
    \/ E_Exhausted

SpecEq == Init /\ [][NextEq]_vars

TypeOK ==
    /\ pc \in {"ready", "loop"}
    /\ Len(current_listen) <= 1
    /\ now \in 0..MaxNow
    /\ steps \in 0..MaxSteps
    /\ Len(emitted) = Len(emitted_span)

\* ===================================================== properties (Spec)
Max(a, b) == IF a >= b THEN a ELSE b

\* A step of next() that consumes a sample.
ConsumeStep == pc = "loop" /\ steps' = steps + 1 /\ status' # <<>>

\* The step appended exactly the record r to the output and returned it.
EmitsRecord(r) ==
    /\ emitted' = Append(emitted, r)
    /\ ret' = <<r>>
    /\ pc' = "ready"

\* The step returned nothing and stays in the loop.
EmitsNothing == emitted' = emitted /\ ret' = ret /\ pc' = "loop"

TrackChangeStep ==
    /\ ConsumeStep
    /\ current_listen # <<>>
    /\ current_listen[1].song.file # status'[1].song.file

SameTrackStep ==
    /\ ConsumeStep
    /\ current_listen # <<>>
    /\ current_listen[1].song.file = status'[1].song.file

\* C1: on a track change a record is emitted iff should_emit(outgoing
\* high-water mark, incoming duration); the record carries the outgoing
\* span's track and start time; either way the active span afterwards is
\* (incoming track, now, incoming elapsed).
C1_TrackChange ==
    [][TrackChangeStep =>
        LET old == current_listen[1]
            s == status'[1]
        IN  /\ IF should_emit(old.max_elapsed, s.duration)
                 THEN EmitsRecord(SongListenRecord(old.song, old.start))
                 ELSE EmitsNothing
            /\ current_listen' = <<CurrentListen(s.song, now, s.elapsed)>>
            /\ now' = now]_vars

\* Scenario A: "a" reached 130 s, then "b" (100 s long) arrives at 0 s.
C1_Witness ==
    /\ branch = "different"
    /\ listen = <<CurrentListen(Song("a"), 0, 1300)>>
    /\ status = <<[song |-> Song("b"), duration |-> 1000, elapsed |-> 0]>>
    /\ pc = "ready"
    /\ ret = <<SongListenRecord(Song("a"), 0)>>
    /\ now = 1
    /\ current_listen = <<CurrentListen(Song("b"), 1, 0)>>

\* C2: on a restart of the same track the span is replaced by (same track,
\* now, incoming elapsed) whether or not anything is emitted; a record with
\* the same track and the old start time is emitted iff should_emit(old
\* high-water mark, incoming duration).
C2_Restart ==
    [][(SameTrackStep
          /\ is_restart(status'[1].elapsed, current_listen[1].max_elapsed)) =>
        LET old == current_listen[1]
            s == status'[1]
        IN  /\ IF should_emit(old.max_elapsed, s.duration)
                 THEN EmitsRecord(SongListenRecord(old.song, old.start))
                 ELSE EmitsNothing
            /\ current_listen' = <<CurrentListen(old.song, now, s.elapsed)>>
            /\ span_id' # span_id
            /\ now' = now]_vars

\* A restart that qualifies for nothing: "a" reached 10 s of a 300 s track
\* and jumps back to 1 s; the span is replaced all the same.
C2_Witness ==
    /\ branch = "restart"
    /\ listen = <<CurrentListen(Song("a"), 0, 100)>>
    /\ status = <<[song |-> Song("a"), duration |-> 3000, elapsed |-> 10]>>
    /\ pc = "loop"
    /\ emitted = <<>>
    /\ now = 1
    /\ current_listen = <<CurrentListen(Song("a"), 1, 10)>>

\* C3: a same-track sample that is not a restart raises the high-water mark
\* to max(old, incoming elapsed), keeps track and start time, and emits
\* nothing, even when the mark crosses a threshold.
C3_Progress ==
    [][(SameTrackStep
          /\ ~is_restart(status'[1].elapsed, current_listen[1].max_elapsed)) =>
        LET old == current_listen[1]
            s == status'[1]
        IN  /\ current_listen' =
                 <<CurrentListen(old.song, old.start,
                                 Max(old.max_elapsed, s.elapsed))>>
            /\ span_id' = span_id
            /\ EmitsNothing]_vars

\* Scenario D: 10 s then 8 s leaves the high-water mark at 10 s.
C3_Witness ==
    /\ branch = "progress"
    /\ listen = <<CurrentListen(Song("a"), 0, 100)>>
    /\ status # <<>>
    /\ status[1].song.file = "a"
    /\ status[1].elapsed = 80
    /\ current_listen = <<CurrentListen(Song("a"), 0, 100)>>
    /\ emitted = <<>>
    /\ pc = "loop"

\* Scenario B's situation: the last sample consumed was for "a", 300 s long,
\* at 10 s, the span of "a" has a high-water mark of 10 s, and the step
\* consumes a sample for "b".
ScenarioBStep ==
    /\ TrackChangeStep
    /\ status # <<>>
    /\ status[1] = [song |-> Song("a"), duration |-> 3000, elapsed |-> 100]
    /\ current_listen[1].max_elapsed = 100
    /\ status'[1].song.file = "b"

\* C4 as stated: in Scenario B nothing is emitted whatever the "b" sample
\* reports, and the active span becomes "b".
C4_ScenarioB_AnySample ==
    [][ScenarioBStep =>
        /\ EmitsNothing
        /\ current_listen'[1].song.file = "b"]_vars

\* C4 amended: in Scenario B nothing is emitted exactly when the "b"
\* sample's duration is below one second or 10 s is less than 60% of it;
\* otherwise the record of "a" is emitted; the active span becomes "b"
\* either way.
C4_ScenarioB ==
    [][ScenarioBStep =>
        LET old == current_listen[1]
            s == status'[1]
        IN  /\ IF s.duration >= 10 /\ 100 * 10 >= 6 * s.duration
                 THEN EmitsRecord(SongListenRecord(old.song, old.start))
                 ELSE EmitsNothing
            /\ current_listen' = <<CurrentListen(s.song, now, s.elapsed)>>]_vars

\* "b" arrives with a duration of 10 s: the record of "a" is emitted.
C4_Witness ==
    /\ branch = "different"
    /\ listen = <<CurrentListen(Song("a"), 0, 100)>>
    /\ status # <<>>
    /\ status[1].song.file = "b"
    /\ status[1].duration = 100
    /\ ret = <<SongListenRecord(Song("a"), 0)>>
    /\ pc = "ready"
    /\ current_listen # <<>>
    /\ current_listen[1].song.file = "b"

\* C9: while the span is not replaced its track, start time and identity
\* stay and its high-water mark never decreases; the stored mark becomes
\* smaller only in a step that replaces the span (restart or track change).
C9_HighWaterMonotone ==
    [][(current_listen # <<>> /\ current_listen' # <<>>) =>
        /\ span_id' = span_id =>
             /\ current_listen'[1].song = current_listen[1].song
             /\ current_listen'[1].start = current_listen[1].start
             /\ current_listen'[1].max_elapsed >= current_listen[1].max_elapsed
        /\ current_listen'[1].max_elapsed < current_listen[1].max_elapsed =>
             /\ span_id' # span_id
             /\ branch' \in {"restart", "different"}]_vars

\* One span over three samples, the last one a backward jump.
C9_Witness ==
    /\ steps = 3
    /\ span_id = 1
    /\ branch = "progress"
    /\ status # <<>>
    /\ status[1].elapsed = 80
    /\ current_listen # <<>>
    /\ current_listen[1].max_elapsed = 250

\* C10: the emitted records are in non-decreasing order of span start time
\* and no span is the subject of two records, nor is the open span the
\* subject of a record already emitted.
C10_OrderedOncePerSpan ==
    /\ \A i \in 1..Len(emitted) : \A j \in 1..Len(emitted) :
         i < j => /\ emitted[i].start <= emitted[j].start
                  /\ emitted_span[i] # emitted_span[j]
    /\ \A i \in 1..Len(emitted_span) : emitted_span[i] # span_id

\* Two records, of spans opened at different times.
C10_Witness ==
    /\ Len(emitted) = 2
    /\ emitted[1].start < emitted[2].start
    /\ emitted_span = <<1, 2>>

\* C11: a pull returns None only in the step in which the source returned
\* None, and that step emits nothing; a sample consumed without producing a
\* record leaves the pull in its loop; a pull that ends after consuming a
\* sample returns the record that sample produced.
C11_ExhaustedOnlyFromSource ==
    [][pc = "loop" =>
        /\ (pc' = "ready" /\ ret' = <<>>) =>
              /\ branch' = "exhausted"
              /\ steps' = steps
              /\ emitted' = emitted
              /\ current_listen' = current_listen
        /\ (steps' = steps + 1 /\ emitted' = emitted) => pc' = "loop"
        /\ (steps' = steps + 1 /\ pc' = "ready") =>
              /\ ret' # <<>>
              /\ emitted' = Append(emitted, ret'[1])]_vars

\* A pull consumed two samples without a record, then the source ended.
C11_Witness ==
    /\ branch = "exhausted"
    /\ pc = "ready"
    /\ ret = <<>>
    /\ steps = 2
    /\ emitted = <<>>
    /\ current_listen # <<>>

\* C12 as stated, for the first record after an exhaustion: once the source
\* has been exhausted with a span open, no later step emits a record for
\* that span.
C12_LostSpanNeverEmitted ==
    [][(branch = "exhausted" /\ current_listen # <<>>) =>
        (Len(emitted_span') > Len(emitted_span) =>
           emitted_span'[Len(emitted_span')] # span_id)]_vars

\* C13: with no active span, the sample consumed opens the span (sample's
\* track, now, sample's elapsed) and nothing is emitted; before the first
\* sample there is no active span.
C13_FirstSample ==
    [][/\ steps = 0 => current_listen = <<>>
       /\ (ConsumeStep /\ current_listen = <<>>) =>
             /\ current_listen' =
                  <<CurrentListen(status'[1].song, now, status'[1].elapsed)>>
             /\ EmitsNothing
             /\ now' = now]_vars

\* The first sample is already at 25 s of a 40 s track: nothing is emitted.
C13_Witness ==
    /\ branch = "first"
    /\ steps = 1
    /\ status = <<[song |-> Song("a"), duration |-> 400, elapsed |-> 250]>>
    /\ current_listen = <<CurrentListen(Song("a"), 1, 250)>>
    /\ emitted = <<>>
    /\ pc = "loop"

\* ================================================== properties (SpecSrc)
\* The player's answers r determined status, elapsed, duration and song.
Complete(r) ==
    /\ r.status_ok
    /\ r.elapsed # <<>>
    /\ r.duration # <<>>
    /\ r.song_ok
    /\ r.song # <<>>

\* The sample s carries exactly what the answers r reported.
BuiltFrom(s, r) ==
    /\ Complete(r)
    /\ s.song.file = r.song[1]
    /\ s.duration = r.duration[1]
    /\ s.elapsed = r.elapsed[1]

\* C14: every sample returned by StatusIterator::next and by
\* MpdStatusIterator::next was built from answers in which elapsed, duration
\* and the current song were all present.
C14_OnlyCompleteSamples ==
    /\ (si_pc = "ready" /\ si_ret # <<>>) =>
          (si_last = "yield" /\ BuiltFrom(si_ret[1], si_resp[1]))
    /\ mi_ret # <<>> => BuiltFrom(mi_ret[1], mi_resp[1])

\* StatusIterator yields after suppressing an incomplete change, and
\* MpdStatusIterator has yielded too.
C14_Witness ==
    /\ si_pc = "ready"
    /\ si_suppressed = 1
    /\ si_ret = <<[song |-> Song("a"), duration |-> 1000, elapsed |-> 100]>>
    /\ mi_ret = <<[song |-> Song("b"), duration |-> 1000, elapsed |-> 100]>>

\* C15 as stated: a source returns None only when waiting for the
\* notification failed, the source main uses included.
C15_ExhaustionOnlyOnIdleFailure ==
    /\ (si_pc = "ready" /\ si_last = "exhausted") => ~si_resp[1].idle_ok
    /\ (mi_called /\ mi_ret = <<>>) => ~mi_resp[1].idle_ok

\* =============================================== properties (SpecClient)
\* C16: inside connect()'s retry loop a failed attempt sleeps 5 s and stays
\* in the loop, no error is returned from the loop, and the loop is left
\* only by an attempt that stores a new connection (connect() then returns
\* Ok); connect() returns an error only from address resolution.
C16_ConnectRetries ==
    [][/\ cl_pc = "connecting" =>
            /\ cl_attempts' # cl_attempts =>
                  /\ cl_pc' = "connecting"
                  /\ cl_slept' = cl_slept + 5
                  /\ client' = client
            /\ cl_ret' \in {cl_ret, "ok"}
            /\ cl_pc' # "connecting" =>
                  /\ client' = <<cl_conns'>>
                  /\ cl_conns' = cl_conns + 1
                  /\ cl_op = "connect" => (cl_pc' = "idle" /\ cl_ret' = "ok")
       /\ (cl_op = "connect" /\ cl_pc = "idle" /\ cl_ret = "ok") => client # <<>>
       /\ (cl_op = "connect" /\ cl_pc = "idle" /\ cl_ret # "ok") =>
            (cl_ret = "err_resolve" /\ cl_attempts = 0)]_vars

\* connect() returned Ok after two failed attempts and 10 s of sleep.
C16_Witness ==
    /\ cl_op = "connect"
    /\ cl_pc = "idle"
    /\ cl_ret = "ok"
    /\ cl_attempts = 2
    /\ cl_slept = 10
    /\ client = <<1>>

\* C17: a failing command clears the stored connection and returns the
\* error; an operation that starts without a connection has established a
\* new one when it issues its command; an operation that starts with a
\* connection issues its command on it without reconnecting, and a
\* successful command leaves it stored.
C17_ReconnectWhenNeeded ==
    [][/\ (cl_pc = "command" /\ cl_ret' = "err_cmd" /\ cl_pc' = "idle") =>
            client' = <<>>
       /\ (cl_pc = "command" /\ cl_ret' = "ok" /\ cl_pc' = "idle") =>
            (client' = client /\ client # <<>> /\ cl_conns' = cl_conns)
       /\ (cl_pc = "idle" /\ cl_ret = "err_cmd") => client = <<>>
       /\ cl_pc = "command" =>
            /\ cl_op \in Ops
            /\ client # <<>>
            /\ cl_had => cl_conns = cl_start_conns
            /\ ~cl_had => (cl_conns = cl_start_conns + 1
                            /\ client = <<cl_conns>>)]_vars

\* The previous operation failed; this one has reconnected and is about to
\* issue its command on the second connection.
C17_Witness ==
    /\ cl_pc = "command"
    /\ cl_ret = "err_cmd"
    /\ ~cl_had
    /\ client = <<2>>

\* C24: whenever current_song, status or wait_for_changes is at the point
\* where it unwraps the stored connection (ensure_connected() has returned
\* Ok), a connection is stored; so the unwrap never panics.
C24_UnwrapNeverFails ==
    /\ cl_pc = "command" => (client # <<>> /\ cl_op \in Ops)
    /\ cl_pc # "panicked"

\* After two commands have failed and cleared the connection, an operation
\* that started without one fails twice to connect, connects, passes the
\* unwrap and completes its command.
C24_Witness ==
    /\ cl_pc = "idle"
    /\ cl_op = "wait_for_changes"
    /\ cl_ret = "ok"
    /\ ~cl_had
    /\ cl_attempts = 2
    /\ client = <<3>>

\* =================================================== properties (SpecDb)
\* Number of successfully logged plays whose artist is a.
LoggedWith(a) ==
    Cardinality({i \in 1..Len(db_logged) : db_logged[i] = <<a>>})

\* C18: when every log_play so far succeeded, the id it returned is
\* positive, and a top_artists(limit) answer has min(limit, number of
\* distinct non-null artists) rows, one per artist, each with the number of
\* logged plays of that artist, in descending order of count, and no artist
\* left out has more plays than one that is listed.
C18_TopArtists ==
    ~db_failed =>
      /\ db_last = "ok" => db_id > 0
      /\ top_state = "ok" =>
           /\ Len(top) =
                Min(top_limit, Cardinality({a \in Artists : LoggedWith(a) > 0}))
           /\ \A i \in 1..Len(top) :
                /\ top[i].artist \in Artists
                /\ top[i].count = LoggedWith(top[i].artist)
                /\ top[i].count > 0
                /\ \A j \in 1..Len(top) :
                     /\ i # j => top[i].artist # top[j].artist
                     /\ i < j => top[i].count >= top[j].count
                /\ \A a \in Artists :
                     (\A j \in 1..Len(top) : top[j].artist # a) =>
                        LoggedWith(a) <= top[i].count

\* Three plays logged (two of "x", one of "y"), then top_artists(2).
C18_Witness ==
    /\ ~db_failed
    /\ db_last = "ok"
    /\ db_id = 3
    /\ top_state = "ok"
    /\ top_limit = 2
    /\ top = <<[artist |-> "x", count |-> 2], [artist |-> "y", count |-> 1]>>

\* ================================================= properties (SpecMain)
\* C19 as stated: between two pulls every record main has received from the
\* tracker has been stored, one row of plays per record, in order.
C19_EveryRecordStored ==
    /\ Len(plays) = Len(main_seen)
    /\ \A i \in 1..Len(plays) : plays[i].id = i

\* ================================================= properties (SpecPair)
\* C20: in two runs that differ only in reported durations the active spans
\* are always equal; a sample with the same duration in both runs produces
\* the same result in both, whatever durations earlier samples reported;
\* and when every sample that ended a span had the same duration in both
\* runs, the two runs have emitted the same records.
C20_DecisionIgnoresEarlierDurations ==
    /\ pa_listen = pb_listen
    /\ pair_same => pa_out = pb_out
    /\ pair_agree => pa_emitted = pb_emitted

\* The runs differed in the duration of a sample of the outgoing track, and
\* both emitted the same record when the span ended.
C20_Witness ==
    /\ pair_differed
    /\ pair_agree
    /\ pair_same
    /\ pa_out # <<>>
    /\ pa_emitted = pb_emitted

\* The actions of Spec compute what loop_body computes.
LoopBodyAgrees ==
    [][ConsumeStep =>
        LET r == loop_body(current_listen, status'[1], now)
        IN  /\ current_listen' = r.span
            /\ emitted' = emitted \o r.out]_vars

\* The engagement threshold of a qualifying listen: the high-water mark h is
\* at least 20 s, or at least 60% of the duration D (a zero duration never
\* satisfies the percentage condition).
Qualifying(h, D) ==
    \/ h >= threshold_time
    \/ /\ D > 0
       /\ h * threshold_percentage_den >= threshold_percentage_num * D

\* C21 as stated: a span ended by a track-change or restart sample whose
\* high-water mark is >= 20 s or >= 60% of the ending sample's duration is
\* emitted, once, by the step that consumes the ending sample; a span ended
\* below the threshold emits nothing; and a record is emitted only by such a
\* step for the span that it ends.
C21_QualifyingEmittedOnce ==
    [][/\ (ConsumeStep /\ EndsSpan(current_listen, status'[1])) =>
            LET old == current_listen[1]
            IN  IF Qualifying(old.max_elapsed, status'[1].duration)
                  THEN /\ EmitsRecord(SongListenRecord(old.song, old.start))
                       /\ emitted_span' = Append(emitted_span, span_id)
                  ELSE EmitsNothing
       /\ emitted' # emitted =>
            /\ ConsumeStep
            /\ EndsSpan(current_listen, status'[1])
            /\ Qualifying(current_listen[1].max_elapsed, status'[1].duration)
      ]_vars

\* C22: the tracker is Idle exactly before the first sample is consumed;
\* every step that consumes a sample leaves exactly one active span, with
\* the sample's track and a high-water mark of at least the sample's elapsed
\* position; no other step touches the span, and a span is never followed
\* by no span.
C22_AlwaysTracking ==
    [][/\ (steps = 0) <=> (current_listen = <<>>)
       /\ (steps' = 0) <=> (current_listen' = <<>>)
       /\ ConsumeStep =>
            /\ Len(current_listen') = 1
            /\ current_listen'[1].song.file = status'[1].song.file
            /\ current_listen'[1].max_elapsed >= status'[1].elapsed
       /\ ~ConsumeStep => current_listen' = current_listen
       /\ current_listen # <<>> => current_listen' # <<>>]_vars

\* Three samples and two records later (track change, then restart) the
\* tracker holds the span of the last sample's track.
C22_Witness ==
    /\ steps = 3
    /\ branch = "restart"
    /\ Len(emitted) = 2
    /\ status # <<>>
    /\ status[1].song.file = "b"
    /\ status[1].elapsed = 10
    /\ current_listen = <<CurrentListen(Song("b"), 1, 10)>>

\* =================================================== properties (SpecEq)
\* C23: fed the same samples at the same clock readings, ListenIterator and
\* SongListenTracker hold the same active span (track, start, high-water
\* mark) after every iteration, end their pulls together, and have returned
\* the same result (the same record, or None on exhaustion).
C23_TrackersEquivalent ==
    /\ eq_li_listen = eq_st_listen
    /\ eq_li_pc = eq_st_pc
    /\ eq_li_ret = eq_st_ret

\* Three samples for track "a": two that keep the span opened at clock
\* reading 0, then a jump back to 1 s that ends both pulls with the record
\* of that span and opens a new one at clock reading 1.
C23_Witness ==
    /\ eq_steps = 3
    /\ eq_last = "sample"
    /\ eq_li_pc = "ready"
    /\ eq_st_pc = "ready"
    /\ eq_li_ret = <<SongListenRecord(Song("a"), 0)>>
    /\ eq_st_ret = <<SongListenRecord(Song("a"), 0)>>
    /\ eq_li_listen = <<CurrentListen(Song("a"), 1, 10)>>
    /\ eq_st_listen = <<CurrentListen(Song("a"), 1, 10)>>

\* =================================================== properties (SpecFn)
\* C5 as stated: should_emit is true whenever h / D >= 0.6, for every D > 0.
C5_PercentageAlone ==
    (call.fn = "should_emit" /\ call.y > 0
       /\ call.x * 10 >= 6 * call.y) => call.result

\* C6: should_emit is false when h < 20 s and D is zero or h / D < 0.6.
C6_BelowBoth ==
    (call.fn = "should_emit" /\ call.x < 200
       /\ (call.y = 0 \/ call.x * 10 < 6 * call.y)) => ~call.result

\* h = 0 with D = 0: neither condition holds.
C6_Witness ==
    call.fn = "should_emit" /\ call.x = 0 /\ call.y = 0 /\ ~call.result

\* C7: should_emit is true for every h >= 20 s, whatever D is.
C7_TimeAlone ==
    (call.fn = "should_emit" /\ call.x >= 200) => call.result

\* h exactly 20 s with D = 0.
C7_Witness ==
    call.fn = "should_emit" /\ call.x = 200 /\ call.y = 0 /\ call.result

\* C8: is_restart(elapsed, high-water mark) is true exactly when
\* elapsed < 5 s and high-water mark >= 5 s.
C8_RestartExact ==
    call.fn = "is_restart" =>
        (call.result <=> (call.x < 50 /\ call.y >= 50))

\* elapsed 2 s against a high-water mark of exactly 5 s.
C8_Witness ==
    call.fn = "is_restart" /\ call.x = 20 /\ call.y = 50 /\ call.result
====
